---- MODULE Spec2Model ----
(***************************************************************************)
(* Browser-side seat booking of the bus ticketing system.                  *)
(*                                                                         *)
(* Two controllers, which share no state:                                  *)
(*   - SeatSelectionHandler with its SeatBookingManager                    *)
(*     (src/bus/static/js/seat-booking.js): local seat selection, the      *)
(*     pre-submit seat check, the booking call and the availability cache; *)
(*   - RealTimeSeatManager (src/unnamed/part_000): temporary seat holds,   *)
(*     the seat-status snapshot, its render pass and the polling timer.    *)
(*                                                                         *)
(* JavaScript runs one handler turn at a time: every action below is one   *)
(* turn (an event handler up to its first await, or the continuation of an *)
(* await when its response arrives).  The server is external: a response   *)
(* is any value of the documented shape, drawn from a small set.           *)
(*                                                                         *)
(* SpecHandler is the behaviour of the SeatSelectionHandler and of the     *)
(* SeatBookingManager, SpecManager that of the RealTimeSeatManager, and    *)
(* SpecCountdown applies getTimeUntilExpiry against a moving clock.        *)
(***************************************************************************)
EXTENDS Integers, Sequences, FiniteSets, Bags, TLC

\* ------------------------------------------------------------------ bounds

\* Seats on the seat map (one more than maxSeats, so that the limit can be hit).
NumSeats == 5
\* handleFormSubmission calls that may be suspended at an await at one time.
MaxSubmits == 2
\* seat_availability requests (refreshSeatDisplay) that may be outstanding.
MaxRefresh == 1
\* RealTimeSeatManager requests that may be outstanding at one time.
MaxInFlight == 2

\* Whole minutes up to which expires_at values are drawn.
MaxMinutes == 3
MaxToggles == 2

\* --------------------------------------------------------------- constants

\* constructor(container, maxSeats = 4)
maxSeats == 4

\* 1000 * 60, the milliseconds of a minute in getTimeUntilExpiry
MinuteMs == 60000

Seats == 1..NumSeats
Slots == 1..MaxSubmits

\* ------------------------------------------------- JavaScript value helpers

\* Decimal strings of the small numbers used as seat numbers and ids.
Digits == <<"0", "1", "2", "3", "4", "5", "6", "7", "8", "9">>

\* String(n), as a template literal or an object key renders a number.
NumToStr(n) == Digits[n + 1]

\* parseInt(s) for a decimal string s.
ParseInt(s) == CHOOSE n \in 0..9 : NumToStr(n) = s

\* A Map key: JavaScript Maps compare keys by SameValueZero, so the string
\* "7" and the number 7 are different keys.
StringKey(s) == [type |-> "string", num |-> ParseInt(s)]
NumberKey(n) == [type |-> "number", num |-> n]

\* The value of the schedule_id field as the page template fills it.
ScheduleField == "7"

\* The users that may hold a seat; userId is the current user (this.userId).
UserIds == {"u1", "u2"}
userId == "u1"

VARIABLES
    \* SeatSelectionHandler / SeatBookingManager
    selectedSeats,      \* SeatSelectionHandler.selectedSeats
    bookingInProgress,  \* SeatBookingManager.bookingInProgress
    availabilityCache,  \* SeatBookingManager.availabilityCache: key -> data
    submissions,        \* the handleFormSubmission calls, by slot
    refreshPending,     \* outstanding seat_availability requests
    location,           \* window.location.href: "page" or the payment page
    alert,              \* the alert() raised by the last turn
    refreshInterval,    \* SeatBookingManager.refreshInterval (0: null)
    monitorTimers,      \* the availability-monitoring timers that are active
    \* RealTimeSeatManager
    rtSelectedSeats,    \* RealTimeSeatManager.selectedSeats
    bookedSeats,        \* RealTimeSeatManager.bookedSeats
    availableSeats,     \* RealTimeSeatManager.availableSeats
    tempSelections,     \* RealTimeSeatManager.tempSelections: seat -> info
    seatStatus,         \* seat.dataset.status of every seat element
    seatUserId,         \* seat.dataset.userId of every seat element
    updateInterval,     \* RealTimeSeatManager.updateInterval (0: null)
    timers,             \* the interval timers that are active
    isInitialized,      \* RealTimeSeatManager.isInitialized
    listeners,          \* the focus, blur and visibilitychange listeners are registered
    seatListeners,      \* the click listeners of the seats are registered
    phase,              \* position of initialize()
    holdRequests,       \* outstanding select_seat / deselect_seat requests (a bag)
    statusRequests,     \* outstanding seat_status requests, in the order issued
    notification,       \* the showNotification() of the last turn
    overtaken,          \* how many of the oldest seat_status requests have
                        \* seen a later request answered before them
    focused,            \* the window has the focus
    hidden,             \* document.hidden
    \* getTimeUntilExpiry
    now,                \* the clock, in ms
    expiresAt,          \* the expires_at last passed to getTimeUntilExpiry, in ms
    countdownText,      \* the text it returned
    \* the last turn taken and the input it consumed
    ev

handlerVars == <<selectedSeats, bookingInProgress, availabilityCache,
                 submissions, refreshPending, location, alert,
                 refreshInterval, monitorTimers>>
managerVars == <<rtSelectedSeats, bookedSeats, availableSeats, tempSelections,
                 seatStatus, seatUserId, updateInterval, timers,
                 isInitialized, listeners, seatListeners, phase, holdRequests,
                 statusRequests, notification, overtaken, focused, hidden>>
clockVars == <<now, expiresAt, countdownText>>
vars == <<handlerVars, managerVars, clockVars, ev>>

\* ======================================================================
\* SeatBookingManager and SeatSelectionHandler
\* ======================================================================

NoAlert == [kind |-> "none", seats |-> {}, msg |-> ""]
Alert(k, s, m) == [kind |-> k, seats |-> s, msg |-> m]

Event(o, a) == [op |-> o, arg |-> a]

\* A handleFormSubmission call: idle (not running, or returned), checking
\* (awaiting checkSpecificSeats) or booking (awaiting bookSeats).  rival
\* records, for the properties, that a call which was suspended at the
\* same time as this one has issued a book_seats request; toggles counts
\* the changes toggleSeat made to selectedSeats since the call passed it to
\* checkSpecificSeats (MaxToggles: that many or more).
IdleSubmission == [pc |-> "idle", rival |-> FALSE, toggles |-> 0]

\* A handleFormSubmission call suspended at an await.
Suspended(i) == submissions[i].pc \in {"checking", "booking"}

\* The inputs of a form submission: the form filled in, or one of its
\* fields left empty.
CompleteForm ==
    [schedule_id |-> ScheduleField, name |-> "Ann",
     email |-> "ann@example.org", phone |-> "555"]
FormInputs ==
    {CompleteForm} \cup
    {[CompleteForm EXCEPT ![k] = ""] : k \in {"schedule_id", "name", "email", "phone"}}

\* The responses of POST check_seats.  ok = FALSE is a transport or non-2xx
\* error, for which checkSpecificSeats returns null.  The request body
\* (the seats selected when it was sent) is not kept: the client never
\* reads it again, and the server may name any seats.
CheckResponses ==
    {[ok |-> FALSE, all_available |-> FALSE, unavailable_seats |-> {}]}
    \cup {[ok |-> TRUE, all_available |-> TRUE, unavailable_seats |-> {}]}
    \cup {[ok |-> TRUE, all_available |-> FALSE, unavailable_seats |-> u] :
            u \in {{1}, {2}, {1, 2}}}

\* The booking ids the server hands out.
BookingIds == {"b1", "b2"}

\* The responses of POST book_seats: 2xx with a body, non-2xx with an error
\* body, or a transport error (fetch rejects).
BookResponses ==
    {[ok |-> TRUE, success |-> TRUE, booking_id |-> b, error |-> ""] : b \in BookingIds}
    \cup {[ok |-> TRUE, success |-> FALSE, booking_id |-> "", error |-> "rejected"]}
    \cup {[ok |-> FALSE, success |-> FALSE, booking_id |-> "", error |-> e] :
            e \in {"Seat already booked", ""}}

\* The bodies of GET seat_availability (their content is only stored).
AvailabilityData == {"availability"}

AtLimitOffByOne == Cardinality(selectedSeats) > maxSeats

\* this.selectedSeats.size >= this.maxSeats
AtLimit == Cardinality(selectedSeats) >= maxSeats

\* toggleSeat(seatElement): deselect always, select below the limit.
\* The calls of handleFormSubmission that await checkSpecificSeats see a
\* changed selectedSeats when they resume.
SelectionChanged ==
    [i \in Slots |->
        IF submissions[i].pc = "checking" /\ submissions[i].toggles < MaxToggles
        THEN [submissions[i] EXCEPT !.toggles = @ + 1]
        ELSE submissions[i]]

toggleSeat(s) ==
    /\ location = "page"
    /\ IF s \in selectedSeats
       THEN /\ selectedSeats' = selectedSeats \ {s}
            /\ submissions' = SelectionChanged
            /\ alert' = NoAlert
       ELSE IF AtLimit
            THEN /\ alert' = Alert("limit", {}, "You can only select up to maxSeats seats.")
                 /\ UNCHANGED <<selectedSeats, submissions>>
            ELSE /\ selectedSeats' = selectedSeats \cup {s}
                 /\ submissions' = SelectionChanged
                 /\ alert' = NoAlert
    /\ ev' = Event("toggleSeat", [seat |-> s])
    /\ UNCHANGED <<bookingInProgress, availabilityCache,
                   refreshPending, location, refreshInterval, monitorTimers,
                   managerVars, clockVars>>

\* refreshSeatDisplay(): a seat_availability request when the container
\* holds a schedule id.  The field it reads through the container is the
\* field handleFormSubmission read through the form.
refreshSeatDisplay(scheduleId) ==
    IF scheduleId # ""
    THEN refreshPending' = refreshPending + 1
    ELSE UNCHANGED refreshPending

UnavailableAlertOfSelection(r) ==
    Alert("unavailable", selectedSeats, "no longer available")

\* The alert of handleFormSubmission when the seat check names seats that
\* are no longer available: seatCheck.unavailable_seats.join(', ').
UnavailableAlert(r) ==
    Alert("unavailable", r.unavailable_seats, "no longer available")

\* Room for the request refreshSeatDisplay may issue.
RefreshRoom == refreshPending < MaxRefresh

\* The lowest slot that holds no suspended call.
FreeSlot == CHOOSE i \in Slots :
    /\ ~Suspended(i)
    /\ \A j \in Slots : ~Suspended(j) => i <= j

MissingFieldButPhone(f) == f.schedule_id = "" \/ f.name = "" \/ f.email = ""

\* !scheduleId || !passengerName || !passengerEmail || !passengerPhone
MissingField(f) ==
    f.schedule_id = "" \/ f.name = "" \/ f.email = "" \/ f.phone = ""

\* handleFormSubmission(form), up to its first await: validation, then the
\* check_seats request for the seats selected now.
handleFormSubmission(f) ==
    /\ location = "page"
    /\ IF MissingField(f)
       THEN /\ alert' = Alert("required", {}, "Please fill in all required fields.")
            /\ UNCHANGED submissions
       ELSE IF Cardinality(selectedSeats) = 0
            THEN /\ alert' = Alert("noseat", {}, "Please select at least one seat.")
                 /\ UNCHANGED submissions
            ELSE /\ \E i \in Slots : ~Suspended(i)
                 /\ submissions' =
                      [submissions EXCEPT ![FreeSlot] =
                          [pc |-> "checking",
                           rival |-> \E j \in Slots : submissions[j].pc = "booking",
                           toggles |-> 0]]
                 /\ alert' = NoAlert
    /\ ev' = Event("handleFormSubmission", [form |-> f])
    /\ UNCHANGED <<selectedSeats, bookingInProgress, availabilityCache,
                   refreshPending, location, refreshInterval, monitorTimers,
                   managerVars, clockVars>>

bookSeatsAcceptsAlways == TRUE

\* bookSeats(bookingData), up to its await: TRUE when the call is accepted
\* (the request is issued), FALSE when it throws 'Booking already in
\* progress' before the try block, so that its finally does not run.
bookSeatsAccepts == ~bookingInProgress

\* The flag after a bookSeats call was made.
bookSeatsFlag == TRUE

\* handleFormSubmission resumed with the result of checkSpecificSeats.
checkSeatsDone(i, r) ==
    /\ location = "page"
    /\ submissions[i].pc = "checking"
    /\ IF ~r.ok
       THEN \* seatCheck is null: reading all_available throws, caught below
            /\ RefreshRoom
            /\ alert' = Alert("failed", {}, "TypeError")
            /\ refreshSeatDisplay(ScheduleField)
            /\ submissions' = [submissions EXCEPT ![i] = IdleSubmission]
            /\ UNCHANGED bookingInProgress
       ELSE IF ~r.all_available
       THEN /\ RefreshRoom
            /\ alert' = UnavailableAlert(r)
            /\ refreshSeatDisplay(ScheduleField)
            /\ submissions' = [submissions EXCEPT ![i] = IdleSubmission]
            /\ UNCHANGED bookingInProgress
       ELSE IF bookSeatsAccepts
       THEN /\ bookingInProgress' = bookSeatsFlag
            /\ submissions' =
                 [j \in Slots |->
                    IF j = i THEN [submissions[j] EXCEPT !.pc = "booking", !.toggles = 0]
                    ELSE IF Suspended(j) THEN [submissions[j] EXCEPT !.rival = TRUE]
                    ELSE submissions[j]]
            /\ alert' = NoAlert
            /\ UNCHANGED refreshPending
       ELSE /\ RefreshRoom
            /\ alert' = Alert("failed", {}, "Booking already in progress. Please wait.")
            /\ refreshSeatDisplay(ScheduleField)
            /\ submissions' = [submissions EXCEPT ![i] = IdleSubmission]
            /\ bookingInProgress' = bookingInProgress
    /\ ev' = Event("checkSeatsDone", [slot |-> i, resp |-> r])
    /\ UNCHANGED <<selectedSeats, availabilityCache, location, refreshInterval, monitorTimers,
                   managerVars, clockVars>>

\* availabilityCache.delete(key)
CacheDelete(cache, key) == [k \in DOMAIN cache \ {key} |-> cache[k]]

\* availabilityCache.set(key, value)
CacheSet(cache, key, value) ==
    [k \in DOMAIN cache \cup {key} |-> IF k = key THEN value ELSE cache[k]]

\* The selection after a successful booking: handleFormSubmission only
\* redirects, it does not touch selectedSeats.
SelectionAfterBooking == selectedSeats

bookSeatsFinallySkippedOnError(r) == ~r.ok

\* bookSeats, finally: the flag after the call has ended, whatever the
\* response r was.
bookSeatsFinally(r) == FALSE

\* bookSeats resumed with the response, then handleFormSubmission resumed
\* with its result or its error.
bookSeatsDone(i, r) ==
    /\ location = "page"
    /\ submissions[i].pc = "booking"
    /\ bookingInProgress' = bookSeatsFinally(r)
    /\ submissions' = [submissions EXCEPT ![i] = IdleSubmission]
    /\ IF r.ok
       THEN /\ availabilityCache' =
                  CacheDelete(availabilityCache, NumberKey(ParseInt(ScheduleField)))
            /\ alert' = NoAlert
            /\ UNCHANGED refreshPending
            /\ IF r.success
               THEN /\ location' = r.booking_id
                    /\ selectedSeats' = SelectionAfterBooking
               ELSE UNCHANGED <<location, selectedSeats>>
       ELSE /\ RefreshRoom
            /\ alert' = Alert("failed", {},
                              IF r.error # "" THEN r.error ELSE "Booking failed")
            /\ refreshSeatDisplay(ScheduleField)
            /\ UNCHANGED <<availabilityCache, location, selectedSeats>>
    /\ ev' = Event("bookSeatsDone", [slot |-> i, resp |-> r])
    /\ UNCHANGED <<refreshInterval, monitorTimers, managerVars, clockVars>>

\* checkSeatAvailability resumed with the response of seat_availability:
\* on success the body is cached under the schedule id it was called with.
checkSeatAvailabilityDone(ok, data) ==
    /\ location = "page"
    /\ refreshPending > 0
    /\ refreshPending' = refreshPending - 1
    /\ IF ok
       THEN availabilityCache' =
                CacheSet(availabilityCache, StringKey(ScheduleField), data)
       ELSE UNCHANGED availabilityCache
    /\ alert' = NoAlert
    /\ ev' = Event("checkSeatAvailabilityDone", [ok |-> ok, data |-> data])
    /\ UNCHANGED <<selectedSeats, bookingInProgress, submissions, location,
                   refreshInterval, monitorTimers,
                   managerVars, clockVars>>

\* setInterval never returns an id it returned before: the new id differs
\* from the one held in refreshInterval, the only other id the model keeps.
NewMonitorTimer == CHOOSE t \in 1..2 : t # refreshInterval

\* startAvailabilityMonitoring(scheduleId, updateCallback): clears the
\* timer it holds, issues the initial check and sets a new timer.
startAvailabilityMonitoring ==
    /\ location = "page"
    /\ RefreshRoom
    /\ monitorTimers' = (monitorTimers \ {refreshInterval}) \cup {NewMonitorTimer}
    /\ refreshPending' = refreshPending + 1
    /\ refreshInterval' = NewMonitorTimer
    /\ alert' = NoAlert
    /\ ev' = Event("startAvailabilityMonitoring", [seat |-> 0])
    /\ UNCHANGED <<selectedSeats, bookingInProgress, availabilityCache,
                   submissions, location, managerVars, clockVars>>

\* stopAvailabilityMonitoring()
stopAvailabilityMonitoring ==
    /\ location = "page"
    /\ IF refreshInterval # 0
       THEN /\ monitorTimers' = monitorTimers \ {refreshInterval}
            /\ refreshInterval' = 0
       ELSE UNCHANGED <<monitorTimers, refreshInterval>>
    /\ alert' = NoAlert
    /\ ev' = Event("stopAvailabilityMonitoring", [seat |-> 0])
    /\ UNCHANGED <<selectedSeats, bookingInProgress, availabilityCache,
                   submissions, refreshPending, location, managerVars, clockVars>>

\* The setInterval callback of startAvailabilityMonitoring: one
\* checkSeatAvailability.
monitorTick ==
    /\ location = "page"
    /\ monitorTimers # {}
    /\ RefreshRoom
    /\ refreshPending' = refreshPending + 1
    /\ alert' = NoAlert
    /\ ev' = Event("monitorTick", [seat |-> 0])
    /\ UNCHANGED <<selectedSeats, bookingInProgress, availabilityCache,
                   submissions, location, refreshInterval, monitorTimers,
                   managerVars, clockVars>>

\* ======================================================================
\* RealTimeSeatManager
\* ======================================================================

NoNotification == [type |-> "none", about |-> ""]
Notification(t, a) == [type |-> t, about |-> a]

\* A temporary selection as seat_status reports it.
HoldBy(u) == [user_id |-> u, username |-> u]

\* The bodies of GET seat_status: booked_seats, available_seats and
\* temporary_selections, an object keyed by the seat number as a string.
\* No two of them agree in any part.  In StatusHeld seat 2 is booked and
\* held at once.
StatusFree ==
    [ok |-> TRUE, booked_seats |-> {}, available_seats |-> Seats,
     temporary_selections |-> [k \in {} |-> HoldBy(userId)]]
StatusMixed ==
    [ok |-> TRUE, booked_seats |-> {1}, available_seats |-> Seats \ {1, 2, 3},
     temporary_selections |->
        [k \in {"2", "3"} |-> IF k = "2" THEN HoldBy(userId) ELSE HoldBy("u2")]]
StatusHeld ==
    [ok |-> TRUE, booked_seats |-> {2, 3}, available_seats |-> Seats \ {1, 2, 3, 4},
     temporary_selections |->
        [k \in {"1", "2"} |-> IF k = "1" THEN HoldBy(userId) ELSE HoldBy("u2")]]
StatusBodies == {StatusFree, StatusMixed, StatusHeld}

\* A transport error or a non-2xx response of seat_status.
StatusFailure ==
    [ok |-> FALSE, booked_seats |-> {}, available_seats |-> {},
     temporary_selections |-> [k \in {} |-> HoldBy(userId)]]
StatusResponses == StatusBodies \cup {StatusFailure}

\* The outcomes of select_seat and deselect_seat: success true, success
\* false, or an error thrown by fetch or by response.json().
HoldOutcomes == {"success", "failure", "error"}

\* A select_seat or deselect_seat request for seat s.
HoldRequest(k, s) == [kind |-> k, seat |-> s]

\* A seat_status request is named by the caller that awaits it: "init"
\* (initialize), "poll" (the interval timer), "select" or "deselect".
RemoveAt(seq, k) == SubSeq(seq, 1, k - 1) \o SubSeq(seq, k + 1, Len(seq))

\* The number of outstanding requests.
InFlight == BagCardinality(holdRequests) + Len(statusRequests)

\* Room for one more outstanding request.
Room == InFlight < MaxInFlight

\* The snapshot as one value.
Snapshot == [booked |-> bookedSeats, available |-> availableSeats,
             temp |-> tempSelections]

\* Object.entries(data.temporary_selections) stored under parseInt(seatNum).
TempMap(obj) ==
    [n \in {ParseInt(k) : k \in DOMAIN obj} |-> obj[NumToStr(n)]]

MergeSnapshot(r) ==
    [booked |-> bookedSeats \cup r.booked_seats,
     available |-> r.available_seats,
     temp |-> TempMap(r.temporary_selections)]

\* fetchSeatStatus on a 2xx response: the three parts are built anew.
ReplaceSnapshot(r) ==
    [booked |-> r.booked_seats, available |-> r.available_seats,
     temp |-> TempMap(r.temporary_selections)]

ResetSnapshot == [booked |-> {}, available |-> {}, temp |-> <<>>]

\* fetchSeatStatus on an error: the catch block only logs.
KeepSnapshot == Snapshot

RenderStatusHoldFirst(snap, s) ==
    IF s \in DOMAIN snap.temp THEN "temporary"
    ELSE IF s \in snap.booked THEN "booked"
    ELSE "available"

\* updateSeatDisplay(): dataset.status of seat s for a snapshot.
RenderStatus(snap, s) ==
    IF s \in snap.booked THEN "booked"
    ELSE IF s \in DOMAIN snap.temp THEN "temporary"
    ELSE "available"

\* updateSeatDisplay(): dataset.userId of seat s for a snapshot.
RenderUserId(snap, s) ==
    IF s \notin snap.booked /\ s \in DOMAIN snap.temp
    THEN snap.temp[s].user_id
    ELSE ""

\* The seat_status request at position k is stale: the response of a
\* request issued after it has arrived before its own.
StaleRequest(k) == k <= overtaken

\* updateSeatDisplay(): the classes of seat s for a snapshot, of those the
\* render pass removes from every seat before it adds any.
RenderClasses(snap, s) ==
    IF s \in snap.booked
    THEN {"bg-red-400", "text-white", "cursor-not-allowed"}
    ELSE IF s \in DOMAIN snap.temp
    THEN IF snap.temp[s].user_id = userId
         THEN {"text-white", "cursor-not-allowed", "bg-green-500", "cursor-pointer"}
         ELSE {"bg-yellow-400", "text-white", "cursor-not-allowed"}
    ELSE {"bg-gray-200", "hover:bg-gray-300", "cursor-pointer"}

\* The classes that show the status of a seat.
StatusClasses == {"bg-red-400", "bg-yellow-400", "bg-green-500", "bg-gray-200"}

\* The stale requests once the response of request k has arrived: every
\* request issued before k has been overtaken.
OvertakenAfter(k) == IF StaleRequest(k) THEN overtaken - 1 ELSE k - 1

SnapshotAfterFetchDropStale(k, r) ==
    IF r.ok /\ ~StaleRequest(k) THEN ReplaceSnapshot(r) ELSE KeepSnapshot

\* fetchSeatStatus: the snapshot after the response r of request k.  The
\* code keeps no request id and cancels nothing: every 2xx response is
\* applied, whatever its position.
SnapshotAfterFetch(k, r) ==
    IF r.ok THEN ReplaceSnapshot(r) ELSE KeepSnapshot

\* An interval id that is not in use.
NewTimer == CHOOSE t \in 1..(Cardinality(timers) + 1) : t \notin timers

\* startRealTimeUpdates()
startRealTimeUpdates ==
    IF updateInterval # 0
    THEN UNCHANGED <<updateInterval, timers>>
    ELSE /\ updateInterval' = NewTimer
         /\ timers' = timers \cup {NewTimer}

stopRealTimeUpdatesKeepsTimer ==
    /\ updateInterval' = 0
    /\ timers' = timers

\* stopRealTimeUpdates()
stopRealTimeUpdates ==
    IF updateInterval # 0
    THEN /\ timers' = timers \ {updateInterval}
         /\ updateInterval' = 0
    ELSE UNCHANGED <<updateInterval, timers>>

\* initialize(), up to its await of fetchSeatStatus().
initialize ==
    /\ phase = "constructed"
    /\ phase' = "fetching"
    /\ statusRequests' = Append(statusRequests, "init")
    /\ notification' = NoNotification
    /\ ev' = Event("initialize", [seat |-> 0])
    /\ UNCHANGED <<rtSelectedSeats, bookedSeats, availableSeats, tempSelections,
                   seatStatus, seatUserId, updateInterval, timers,
                   isInitialized, listeners, seatListeners, holdRequests,
                   overtaken, focused, hidden, handlerVars, clockVars>>

\* fetchSeatStatus resumed with the response to request k, then the caller
\* that awaited it: initialize, selectSeat, deselectSeat or the timer.
fetchSeatStatusDone(k, r) ==
    /\ k \in 1..Len(statusRequests)
    /\ statusRequests' = RemoveAt(statusRequests, k)
    /\ overtaken' = OvertakenAfter(k)
    /\ LET snap == SnapshotAfterFetch(k, r)
       IN /\ bookedSeats' = snap.booked
          /\ availableSeats' = snap.available
          /\ tempSelections' = snap.temp
          /\ IF r.ok
             THEN /\ seatStatus' = [s \in Seats |-> RenderStatus(snap, s)]
                  /\ seatUserId' = [s \in Seats |-> RenderUserId(snap, s)]
             ELSE UNCHANGED <<seatStatus, seatUserId>>
    /\ IF statusRequests[k] = "init"
       THEN /\ listeners' = TRUE
            /\ seatListeners' = TRUE
            /\ startRealTimeUpdates
            /\ isInitialized' = TRUE
            /\ phase' = "done"
            /\ notification' = NoNotification
       ELSE /\ notification' =
                 IF statusRequests[k] = "select" THEN Notification("success", "select")
                 ELSE IF statusRequests[k] = "deselect"
                      THEN Notification("success", "deselect")
                      ELSE NoNotification
            /\ UNCHANGED <<listeners, seatListeners, updateInterval, timers,
                           isInitialized, phase>>
    /\ ev' = Event("fetchSeatStatusDone",
                    [index |-> k, caller |-> statusRequests[k],
                     stale |-> StaleRequest(k), resp |-> r])
    /\ UNCHANGED <<rtSelectedSeats, holdRequests, focused, hidden,
                   handlerVars, clockVars>>

ClickRequestAnyHold(s) ==
    IF seatStatus[s] = "booked" THEN "none"
    ELSE IF seatStatus[s] = "temporary" THEN "deselect"
    ELSE IF seatStatus[s] = "available" THEN "select"
    ELSE "none"

\* handleSeatClick: the request a click on seat s leads to, by the
\* dataset.status and dataset.userId of the seat element.
ClickRequest(s) ==
    IF seatStatus[s] = "booked" THEN "none"
    ELSE IF seatStatus[s] = "temporary" /\ seatUserId[s] = userId THEN "deselect"
    ELSE IF seatStatus[s] = "available" THEN "select"
    ELSE "none"

\* handleSeatClick(event) on seat s, up to the request it issues.
handleSeatClick(s) ==
    /\ seatListeners
    /\ IF ClickRequest(s) = "none"
       THEN UNCHANGED holdRequests
       ELSE /\ Room
            /\ holdRequests' =
                 holdRequests (+) SetToBag({HoldRequest(ClickRequest(s), s)})
    /\ notification' = NoNotification
    /\ ev' = Event("handleSeatClick", [seat |-> s])
    /\ UNCHANGED <<rtSelectedSeats, bookedSeats, availableSeats, tempSelections,
                   seatStatus, seatUserId, updateInterval, timers,
                   isInitialized, listeners, seatListeners, phase,
                   statusRequests, overtaken, focused, hidden,
                   handlerVars, clockVars>>

SelectedAfterBlindSelect(s, outcome) == rtSelectedSeats \cup {s}

\* selectSeat: this.selectedSeats after the response.
SelectedAfterSelect(s, outcome) ==
    IF outcome = "success" THEN rtSelectedSeats \cup {s} ELSE rtSelectedSeats

SelectedAfterOptimisticDeselect(s, outcome) == rtSelectedSeats \ {s}

\* deselectSeat: this.selectedSeats after the response.
SelectedAfterDeselect(s, outcome) ==
    IF outcome = "success" THEN rtSelectedSeats \ {s} ELSE rtSelectedSeats

\* The rest of selectSeat / deselectSeat: on success the status refresh it
\* awaits, otherwise the error notification.
HoldDone(s, kind, outcome, selected) ==
    /\ BagIn(HoldRequest(kind, s), holdRequests)
    /\ holdRequests' = holdRequests (-) SetToBag({HoldRequest(kind, s)})
    /\ rtSelectedSeats' = selected
    /\ IF outcome = "success"
       THEN /\ statusRequests' = Append(statusRequests, kind)
            /\ notification' = NoNotification
       ELSE /\ UNCHANGED statusRequests
            /\ notification' = Notification("error", kind)
    /\ ev' = Event(kind, [seat |-> s, outcome |-> outcome])
    /\ UNCHANGED <<bookedSeats, availableSeats, tempSelections, seatStatus,
                   seatUserId, updateInterval, timers, isInitialized,
                   listeners, seatListeners, phase, overtaken, focused, hidden,
                   handlerVars, clockVars>>

\* selectSeat(seatNumber) resumed with the response of select_seat.
selectSeatDone(s, outcome) ==
    HoldDone(s, "select", outcome, SelectedAfterSelect(s, outcome))

\* deselectSeat(seatNumber) resumed with the response of deselect_seat.
deselectSeatDone(s, outcome) ==
    HoldDone(s, "deselect", outcome, SelectedAfterDeselect(s, outcome))

\* The setInterval callback of startRealTimeUpdates: one fetchSeatStatus.
intervalTick ==
    /\ timers # {}
    /\ Room
    /\ statusRequests' = Append(statusRequests, "poll")
    /\ notification' = NoNotification
    /\ ev' = Event("intervalTick", [seat |-> 0])
    /\ UNCHANGED <<rtSelectedSeats, bookedSeats, availableSeats, tempSelections,
                   seatStatus, seatUserId, updateInterval, timers,
                   isInitialized, listeners, seatListeners, phase,
                   holdRequests, overtaken, focused, hidden,
                   handlerVars, clockVars>>

\* The browser raises focus only on a window without the focus whose page
\* is visible, blur only on a window with the focus, and visibilitychange
\* when document.hidden has changed.
EventPossible(e) ==
    CASE e = "focus" -> ~focused /\ ~hidden
      [] e = "blur" -> focused
      [] e = "hidden" -> ~hidden
      [] e = "visible" -> hidden

\* The window focus and blur listeners and the visibilitychange listener
\* of setupEventListeners.  The page is in the foreground until the
\* listeners are registered.
lifecycleEvent(e) ==
    /\ listeners
    /\ EventPossible(e)
    /\ focused' = IF e = "focus" THEN TRUE ELSE IF e = "blur" THEN FALSE ELSE focused
    /\ hidden' = IF e = "hidden" THEN TRUE ELSE IF e = "visible" THEN FALSE ELSE hidden
    /\ IF e = "focus" \/ e = "visible"
       THEN startRealTimeUpdates
       ELSE stopRealTimeUpdates
    /\ notification' = NoNotification
    /\ ev' = Event("lifecycleEvent", [event |-> e, running |-> updateInterval # 0])
    /\ UNCHANGED <<rtSelectedSeats, bookedSeats, availableSeats, tempSelections,
                   seatStatus, seatUserId, isInitialized, listeners,
                   seatListeners, phase, holdRequests, statusRequests, overtaken,
                   handlerVars, clockVars>>

LifecycleEvents == {"focus", "blur", "visible", "hidden"}

\* destroy(): stops the timer and removes the click listener of every seat.
\* The three removeEventListener calls on window and document name the
\* bound methods, which are not the arrow functions setupEventListeners
\* registered, so those listeners stay.
destroy ==
    /\ stopRealTimeUpdates
    /\ seatListeners' = FALSE
    /\ notification' = NoNotification
    /\ ev' = Event("destroy", [seat |-> 0])
    /\ UNCHANGED <<rtSelectedSeats, bookedSeats, availableSeats, tempSelections,
                   seatStatus, seatUserId, isInitialized, listeners, phase,
                   holdRequests, statusRequests, overtaken, focused, hidden,
                   handlerVars, clockVars>>

\* ======================================================================
\* RealTimeSeatManager.getTimeUntilExpiry
\* ======================================================================

FloorDiv(a, b) == a \div b

\* Math.ceil(a / b) for a > 0 and b > 0.
Ceil(a, b) == (a + b - 1) \div b

\* The text for diffMs = expiry - now: 'expired', or the minutes rounded
\* up, followed by ' min' and an 's' unless the number is 1.
CountdownText(diffMs) ==
    IF diffMs <= 0
    THEN "expired"
    ELSE LET diffMins == Ceil(diffMs, MinuteMs)
         IN NumToStr(diffMins) \o " min" \o (IF diffMins # 1 THEN "s" ELSE "")

\* The clock moves in quarters of a minute, up to MaxMinutes.
ClockStep == MinuteMs \div 4
MaxClock == MaxMinutes * MinuteMs

\* The expires_at values: the whole minutes and the millisecond before
\* and after each.
ExpiryTimes == {m * MinuteMs + d : m \in 0..MaxMinutes, d \in {-1, 0, 1}}

\* getTimeUntilExpiry(expiresAt)
getTimeUntilExpiry(x) ==
    /\ expiresAt' = x
    /\ countdownText' = CountdownText(x - now)
    /\ ev' = Event("getTimeUntilExpiry", [expires_at |-> x])
    /\ UNCHANGED <<now, handlerVars, managerVars>>

\* Time passes: new Date() returns a later time.
clockTick ==
    /\ now + ClockStep <= MaxClock
    /\ now' = now + ClockStep
    /\ ev' = Event("clockTick", [seat |-> 0])
    /\ UNCHANGED <<expiresAt, countdownText, handlerVars, managerVars>>

\* ======================================================================
\* Initial state and specifications
\* ======================================================================

Init ==
    /\ selectedSeats = {}
    /\ bookingInProgress = FALSE
    /\ availabilityCache = <<>>
    /\ submissions = [i \in Slots |-> IdleSubmission]
    /\ refreshPending = 0
    /\ location = "page"
    /\ alert = NoAlert
    /\ refreshInterval = 0
    /\ monitorTimers = {}
    /\ rtSelectedSeats = {}
    /\ bookedSeats = {}
    /\ availableSeats = {}
    /\ tempSelections = <<>>
    /\ seatStatus = [s \in Seats |-> "unset"]
    /\ seatUserId = [s \in Seats |-> ""]
    /\ updateInterval = 0
    /\ timers = {}
    /\ isInitialized = FALSE
    /\ listeners = FALSE
    /\ seatListeners = FALSE
    /\ phase = "constructed"
    /\ holdRequests = EmptyBag
    /\ statusRequests = <<>>
    /\ notification = NoNotification
    /\ overtaken = 0
    /\ focused = TRUE
    /\ hidden = FALSE
    /\ now = 0
    /\ expiresAt = 0
    /\ countdownText = ""
    /\ ev = Event("init", [seat |-> 0])

NextHandler ==
    \/ \E s \in Seats : toggleSeat(s)
    \/ \E f \in FormInputs : handleFormSubmission(f)
    \/ \E i \in Slots : \E r \in CheckResponses :
          checkSeatsDone(i, r)
    \/ \E i \in Slots : \E r \in BookResponses : bookSeatsDone(i, r)
    \/ \E ok \in BOOLEAN : \E d \in AvailabilityData :
          checkSeatAvailabilityDone(ok, d)
    \/ startAvailabilityMonitoring
    \/ stopAvailabilityMonitoring
    \/ monitorTick

SpecHandler == Init /\ [][NextHandler]_vars

NextManager ==
    \/ initialize
    \/ \E k \in 1..MaxInFlight : \E r \in StatusResponses : fetchSeatStatusDone(k, r)
    \/ \E s \in Seats : handleSeatClick(s)
    \/ \E s \in Seats : \E o \in HoldOutcomes : selectSeatDone(s, o)
    \/ \E s \in Seats : \E o \in HoldOutcomes : deselectSeatDone(s, o)
    \/ intervalTick
    \/ \E e \in LifecycleEvents : lifecycleEvent(e)
    \/ destroy

SpecManager == Init /\ [][NextManager]_vars

NextCountdown ==
    \/ \E x \in ExpiryTimes : getTimeUntilExpiry(x)
    \/ clockTick

SpecCountdown == Init /\ [][NextCountdown]_vars

\* ======================================================================
\* Properties
\* ======================================================================

\* The slots whose book_seats request is outstanding.
BookingRequests == {i \in Slots : submissions[i].pc = "booking"}

\* The snapshot holds the content of the seat_status body r, and no more.
SnapshotIs(r) ==
    /\ bookedSeats = r.booked_seats
    /\ availableSeats = r.available_seats
    /\ DOMAIN tempSelections = {ParseInt(k) : k \in DOMAIN r.temporary_selections}
    /\ \A k \in DOMAIN r.temporary_selections :
          tempSelections[ParseInt(k)] = r.temporary_selections[k]

\* C1: neither selection set ever holds more than maxSeats seats, whether
\* the seats were added by toggleSeat or by selectSeat after the server
\* confirmed them.
C1_SelectionWithinLimit ==
    /\ Cardinality(selectedSeats) <= maxSeats
    /\ Cardinality(rtSelectedSeats) <= maxSeats

\* C2: at most one book_seats request is outstanding, the flag is set
\* exactly while it is, and a bookSeats call made while the flag is set is
\* rejected as busy: it issues no request, leaves the outstanding one alone
\* and leaves the flag set.
C2_BusyCall ==
    /\ ev'.op = "checkSeatsDone"
    /\ ev'.arg.resp.ok
    /\ ev'.arg.resp.all_available
    /\ bookingInProgress
C2_SingleFlight ==
    /\ [](Cardinality(BookingRequests) <= 1)
    /\ [](bookingInProgress <=> BookingRequests # {})
    /\ [][C2_BusyCall =>
            /\ alert'.kind = "failed"
            /\ alert'.msg = "Booking already in progress. Please wait."
            /\ BookingRequests' = BookingRequests
            /\ submissions'[ev'.arg.slot].pc = "idle"
            /\ bookingInProgress']_vars
C2_Witness ==
    /\ ev.op = "checkSeatsDone"
    /\ alert.msg = "Booking already in progress. Please wait."
    /\ bookingInProgress
    /\ Cardinality(BookingRequests) = 1

\* C3: of two form submissions that overlap (both suspended at an await at
\* some time) at most one issues a book_seats call, whatever the order of
\* the responses: no submission issues one after a submission it overlaps
\* has issued one.
C3_OverlapOneBooking ==
    \A b \in Slots : ~(submissions[b].pc = "booking" /\ submissions[b].rival)

\* C4: a seat check that answers all_available = false ends the submission
\* without a book_seats call, alerts exactly the seats of unavailable_seats
\* and issues a seat_availability refresh.
C4_UnavailableStopsBooking ==
    [][(/\ ev'.op = "checkSeatsDone"
        /\ ev'.arg.resp.ok
        /\ ~ev'.arg.resp.all_available)
       => /\ alert'.kind = "unavailable"
          /\ alert'.seats = ev'.arg.resp.unavailable_seats
          /\ submissions'[ev'.arg.slot].pc = "idle"
          /\ BookingRequests' = BookingRequests
          /\ bookingInProgress' = bookingInProgress
          /\ refreshPending' = refreshPending + 1]_vars
C4_Witness ==
    /\ ev.op = "checkSeatsDone"
    /\ ev.arg.resp.ok
    /\ ~ev.arg.resp.all_available
    /\ alert.seats = {1, 2}
    /\ selectedSeats # {1, 2}
    /\ refreshPending = 1

C6_AtLimitRejected ==
    [][(/\ ev'.op = "toggleSeat"
        /\ ev'.arg.seat \notin selectedSeats
        /\ Cardinality(selectedSeats) = maxSeats)
       => /\ selectedSeats' = selectedSeats
          /\ alert'.kind = "limit"
          /\ submissions' = submissions
          /\ refreshPending' = refreshPending]_vars
C6_Witness ==
    /\ ev.op = "toggleSeat"
    /\ ev.arg.seat \notin selectedSeats
    /\ Cardinality(selectedSeats) = maxSeats
    /\ alert.kind = "limit"

\* C7: the manager's selection loses a seat only when deselect_seat
\* answered success for that seat; when it answered failure or threw, the
\* selection, the snapshot and the rendered seats stay as they were and an
\* error notification is shown.
C7_DeselectOnConfirmation ==
    [][/\ (rtSelectedSeats' # rtSelectedSeats /\ rtSelectedSeats' \subseteq rtSelectedSeats)
            => /\ ev'.op = "deselect"
               /\ ev'.arg.outcome = "success"
               /\ rtSelectedSeats' = rtSelectedSeats \ {ev'.arg.seat}
       /\ (ev'.op = "deselect" /\ ev'.arg.outcome # "success")
            => /\ rtSelectedSeats' = rtSelectedSeats
               /\ Snapshot' = Snapshot
               /\ seatStatus' = seatStatus
               /\ seatUserId' = seatUserId
               /\ notification'.type = "error"]_vars
C7_Witness ==
    /\ ev.op = "deselect"
    /\ ev.arg.outcome = "failure"
    /\ ev.arg.seat \in rtSelectedSeats
    /\ notification.type = "error"

\* C8: when book_seats answered success, the selection is empty and the
\* page has moved to the payment page of the returned booking id.
C8_SuccessClearsSelection ==
    (ev.op = "bookSeatsDone" /\ ev.arg.resp.ok /\ ev.arg.resp.success)
        => /\ selectedSeats = {}
           /\ location = ev.arg.resp.booking_id

\* C9: a failed seat_status fetch leaves the snapshot and the rendered
\* seats as they were and issues no further request.
C9_FailedFetchKeepsSnapshot ==
    [][(ev'.op = "fetchSeatStatusDone" /\ ~ev'.arg.resp.ok)
       => /\ Snapshot' = Snapshot
          /\ seatStatus' = seatStatus
          /\ seatUserId' = seatUserId
          /\ Len(statusRequests') = Len(statusRequests) - 1
          /\ holdRequests' = holdRequests]_vars
C9_Witness ==
    /\ ev.op = "fetchSeatStatusDone"
    /\ ~ev.arg.resp.ok
    /\ SnapshotIs(StatusMixed)
    /\ seatStatus[1] = "booked"

\* C10: after a successful seat_status fetch the snapshot is the content
\* of that response and nothing else, and at all times the three parts of
\* the snapshot are those of one response (or the empty initial snapshot).
C10_SnapshotWholesale ==
    /\ (ev.op = "fetchSeatStatusDone" /\ ev.arg.resp.ok) => SnapshotIs(ev.arg.resp)
    /\ \/ (bookedSeats = {} /\ availableSeats = {} /\ DOMAIN tempSelections = {})
       \/ \E r \in StatusBodies : SnapshotIs(r)
C10_Witness ==
    /\ ev.op = "fetchSeatStatusDone"
    /\ ev.arg.caller = "deselect"
    /\ ev.arg.resp = StatusFree
    /\ SnapshotIs(StatusFree)

\* C11: seat_status responses are applied in the order they arrive and
\* none is cancelled: every 2xx response, also that of a request which a
\* later request has overtaken, replaces the snapshot, and nothing else
\* changes the snapshot, so the snapshot is always the content of the 2xx
\* response that arrived last.
C11_StaleResponseApplied ==
    [][/\ (ev'.op = "fetchSeatStatusDone" /\ ev'.arg.resp.ok)
            => /\ bookedSeats' = ev'.arg.resp.booked_seats
               /\ availableSeats' = ev'.arg.resp.available_seats
               /\ DOMAIN tempSelections' =
                     {ParseInt(k) : k \in DOMAIN ev'.arg.resp.temporary_selections}
               /\ \A k \in DOMAIN ev'.arg.resp.temporary_selections :
                     tempSelections'[ParseInt(k)] = ev'.arg.resp.temporary_selections[k]
       /\ ~(ev'.op = "fetchSeatStatusDone" /\ ev'.arg.resp.ok)
            => Snapshot' = Snapshot]_vars
C11_Witness ==
    /\ ev.op = "fetchSeatStatusDone"
    /\ ev.arg.stale
    /\ ev.arg.resp = StatusMixed
    /\ SnapshotIs(StatusMixed)
    /\ seatStatus[1] = "booked"

\* C12: a start while the polling runs is a no-op (the timer that runs is
\* left alone, no timer is added, no fetch is issued), for
\* startRealTimeUpdates as for startAvailabilityMonitoring, and neither
\* controller ever has more than one timer active.
C12_StartIdempotent ==
    /\ [](Cardinality(timers) <= 1 /\ Cardinality(monitorTimers) <= 1)
    /\ [][(/\ ev'.op = "lifecycleEvent"
           /\ ev'.arg.event \in {"focus", "visible"}
           /\ updateInterval # 0)
          => /\ updateInterval' = updateInterval
             /\ timers' = timers
             /\ statusRequests' = statusRequests]_vars
    /\ [][(ev'.op = "startAvailabilityMonitoring" /\ refreshInterval # 0)
          => /\ refreshInterval' = refreshInterval
             /\ monitorTimers' = monitorTimers
             /\ refreshPending' = refreshPending]_vars

\* C12, the part of startRealTimeUpdates: a focus or visibilitychange
\* event that finds the timer running has been handled.
C12_ManagerStartWhileRunning ==
    /\ ev.op = "lifecycleEvent"
    /\ ev.arg.event = "focus"
    /\ ev.arg.running
    /\ updateInterval # 0

\* C13: a start that finds the polling stopped sets the timer and issues
\* one refresh in the same turn, so before the first tick (the start of
\* initialize follows the refresh it has just awaited).
C13_StartRefreshesAtOnce ==
    [][/\ (updateInterval = 0 /\ updateInterval' # 0)
            => /\ Cardinality(timers') = 1
               /\ \/ ev'.op = "fetchSeatStatusDone"
                  \/ Len(statusRequests') = Len(statusRequests) + 1
       /\ (refreshInterval = 0 /\ refreshInterval' # 0)
            => /\ Cardinality(monitorTimers') = 1
               /\ refreshPending' = refreshPending + 1]_vars

\* C13, the part of startAvailabilityMonitoring: a start from the stopped
\* state has issued its initial check.
C13_MonitorStartFromStopped ==
    /\ ev.op = "startAvailabilityMonitoring"
    /\ refreshInterval # 0
    /\ refreshPending = 1
    /\ Cardinality(monitorTimers) = 1

\* C14: a stop leaves no timer active and issues nothing, a timer-driven
\* fetch is issued only between a start and the next stop, and a stop that
\* finds the polling stopped changes nothing; for stopRealTimeUpdates as
\* for stopAvailabilityMonitoring.
C14_StopCancels ==
    /\ [](updateInterval = 0 => timers = {})
    /\ [](refreshInterval = 0 => monitorTimers = {})
    /\ [][/\ ev'.op = "intervalTick" => updateInterval # 0
          /\ ev'.op = "monitorTick" => refreshInterval # 0]_vars
    /\ [][(ev'.op = "lifecycleEvent" /\ ev'.arg.event \in {"blur", "hidden"})
          => /\ updateInterval' = 0
             /\ timers' = {}
             /\ statusRequests' = statusRequests
             /\ holdRequests' = holdRequests
             /\ Snapshot' = Snapshot
             /\ (updateInterval = 0 => timers' = timers)]_vars
    /\ [][ev'.op = "stopAvailabilityMonitoring"
          => /\ refreshInterval' = 0
             /\ monitorTimers' = {}
             /\ refreshPending' = refreshPending
             /\ availabilityCache' = availabilityCache
             /\ (refreshInterval = 0 => monitorTimers' = monitorTimers)]_vars
C14_Witness ==
    /\ ev.op = "lifecycleEvent"
    /\ ev.arg.event = "hidden"
    /\ ~ev.arg.running
    /\ updateInterval = 0
    /\ timers = {}
    /\ statusRequests # <<>>

\* C14, the part of stopAvailabilityMonitoring: a stop has been handled
\* while a check issued by the timer is outstanding.
C14_MonitorWitness ==
    /\ ev.op = "stopAvailabilityMonitoring"
    /\ refreshInterval = 0
    /\ monitorTimers = {}
    /\ refreshPending = 1

\* C15: once the listeners are registered, and until destroy(), the timer
\* runs exactly when the page is visible and the window has the focus.
C15_PausedWhenHiddenOrUnfocused ==
    (listeners /\ seatListeners)
        => (updateInterval # 0 <=> (focused /\ ~hidden))

\* C16: every conflict is shown to the user and followed by a refresh
\* issued in the same turn: a select_seat the server rejected (error
\* notification, a seat_status request), a seat check that names
\* unavailable seats, a bookSeats rejected as busy and a book_seats the
\* server rejected (alert, a seat_availability request).
C16_ConflictRefreshes ==
    [][/\ (ev'.op = "select" /\ ev'.arg.outcome = "failure")
            => /\ notification'.type = "error"
               /\ Len(statusRequests') = Len(statusRequests) + 1
       /\ (/\ ev'.op = "checkSeatsDone"
           /\ ev'.arg.resp.ok
           /\ (~ev'.arg.resp.all_available \/ bookingInProgress))
            => /\ alert'.kind # "none"
               /\ refreshPending' = refreshPending + 1
       /\ (/\ ev'.op = "bookSeatsDone"
           /\ ~(ev'.arg.resp.ok /\ ev'.arg.resp.success))
            => /\ alert'.kind # "none"
               /\ refreshPending' = refreshPending + 1]_vars

\* C16, the conflicts of handleFormSubmission other than a 2xx book_seats
\* answer with success false: each raises an alert and a refresh.
C16_FormConflictRefreshes ==
    [][/\ (/\ ev'.op = "checkSeatsDone"
           /\ ev'.arg.resp.ok
           /\ (~ev'.arg.resp.all_available \/ bookingInProgress))
            => /\ alert'.kind # "none"
               /\ refreshPending' = refreshPending + 1
       /\ (ev'.op = "bookSeatsDone" /\ ~ev'.arg.resp.ok)
            => /\ alert'.kind # "none"
               /\ refreshPending' = refreshPending + 1]_vars

\* C17: no error leaves a controller unusable.  When a book_seats request
\* has ended, with success, a rejection or a transport error, the flag is
\* clear, and a bookSeats call made with the flag clear is accepted.  A
\* failed seat_status fetch leaves the timer as it was (the one awaited by
\* initialize is followed by the start of the timer), and while the timer
\* is set the tick is ready to issue the next fetch.
C17_ErrorsNotFatal ==
    /\ [][ev'.op = "bookSeatsDone" => ~bookingInProgress']_vars
    /\ [][(/\ ev'.op = "checkSeatsDone"
           /\ ev'.arg.resp.ok
           /\ ev'.arg.resp.all_available
           /\ ~bookingInProgress)
          => /\ submissions'[ev'.arg.slot].pc = "booking"
             /\ bookingInProgress']_vars
    /\ [][(ev'.op = "fetchSeatStatusDone" /\ ~ev'.arg.resp.ok)
          => IF ev'.arg.caller = "init"
             THEN updateInterval' # 0 /\ timers' = {updateInterval'} /\ listeners'
             ELSE updateInterval' = updateInterval /\ timers' = timers]_vars
    /\ []((updateInterval # 0 /\ InFlight < MaxInFlight) => ENABLED intervalTick)
    /\ [][ev'.op = "intervalTick" => statusRequests' = Append(statusRequests, "poll")]_vars
C17_Witness ==
    /\ ev.op = "bookSeatsDone"
    /\ ~ev.arg.resp.ok
    /\ ~bookingInProgress
    /\ alert.kind = "failed"
    /\ \E i \in Slots : submissions[i].pc = "checking"

\* C17, the part of the poll: a seat_status fetch issued by the timer has
\* failed and the timer is still set.
C17_PollWitness ==
    /\ ev.op = "fetchSeatStatusDone"
    /\ ~ev.arg.resp.ok
    /\ ev.arg.caller = "poll"
    /\ updateInterval # 0
    /\ timers = {updateInterval}

\* C18: a submission with no seat selected, or with the schedule id, the
\* name, the email or the phone empty, ends in a validation alert: it
\* issues neither the seat check nor the booking request and leaves the
\* selection as it was.
C18_InvalidSubmitRejected ==
    [][(/\ ev'.op = "handleFormSubmission"
        /\ \/ selectedSeats = {}
           \/ \E k \in {"schedule_id", "name", "email", "phone"} :
                 ev'.arg.form[k] = "")
       => /\ alert'.kind \in {"required", "noseat"}
          /\ submissions' = submissions
          /\ BookingRequests' = BookingRequests
          /\ bookingInProgress' = bookingInProgress
          /\ refreshPending' = refreshPending
          /\ selectedSeats' = selectedSeats
          /\ location' = location]_vars
C18_Witness ==
    /\ ev.op = "handleFormSubmission"
    /\ ev.arg.form.phone = ""
    /\ ev.arg.form.name # ""
    /\ Cardinality(selectedSeats) = 2
    /\ alert.kind = "required"
    /\ \A i \in Slots : submissions[i].pc = "idle"

\* C19: after a render pass every seat has one status, by the precedence
\* booked, then held, then available: a seat of booked_seats is booked
\* also when temporary_selections names it, a seat named only by
\* temporary_selections is temporary, a seat in neither is available, and
\* every seat carries one status class.
C19_RenderPrecedence ==
    (ev.op = "fetchSeatStatusDone" /\ ev.arg.resp.ok)
        => \A s \in Seats :
              /\ seatStatus[s] \in {"booked", "temporary", "available"}
              /\ seatStatus[s] = "booked" <=> s \in ev.arg.resp.booked_seats
              /\ seatStatus[s] = "temporary" <=>
                    /\ s \notin ev.arg.resp.booked_seats
                    /\ NumToStr(s) \in DOMAIN ev.arg.resp.temporary_selections
              /\ seatStatus[s] = "available" <=>
                    /\ s \notin ev.arg.resp.booked_seats
                    /\ NumToStr(s) \notin DOMAIN ev.arg.resp.temporary_selections
              /\ Cardinality(RenderClasses(Snapshot, s) \cap StatusClasses) = 1
C19_Witness ==
    /\ ev.op = "fetchSeatStatusDone"
    /\ ev.arg.resp = StatusHeld
    /\ 2 \in bookedSeats
    /\ 2 \in DOMAIN tempSelections
    /\ seatStatus[2] = "booked"
    /\ seatStatus[1] = "temporary"
    /\ 4 \notin availableSeats
    /\ seatStatus[4] = "available"

\* C20: the countdown is 'expired' when expires_at is not after now, and
\* otherwise the remaining time rounded up to whole minutes: '1 min' up to
\* one minute, 'm mins' above m - 1 and up to m minutes, so '2 mins' for
\* 90 seconds.
C20_CountdownCeiling ==
    [][ev'.op = "getTimeUntilExpiry"
       => LET d == expiresAt' - now
          IN /\ d <= 0 => countdownText' = "expired"
             /\ (d > 0 /\ d <= MinuteMs) => countdownText' = "1 min"
             /\ \A m \in 2..9 :
                   (d > (m - 1) * MinuteMs /\ d <= m * MinuteMs)
                      => countdownText' = NumToStr(m) \o " mins"
             /\ d = 90000 => countdownText' = "2 mins"]_vars
C20_Witness ==
    /\ ev.op = "getTimeUntilExpiry"
    /\ now > 0
    /\ expiresAt - now = 90000
    /\ countdownText = "2 mins"

\* C21: what a click does follows from the status the last render pass
\* gave the seat.  On a seat rendered as booked or as held by another user
\* it issues nothing and changes nothing; on a seat rendered as the user's
\* own hold it issues one deselect_seat request, on a seat rendered as
\* available one select_seat request, and nothing else.
C21_ClickByRenderedStatus ==
    [][ev'.op = "handleSeatClick"
       => LET s == ev'.arg.seat
              inert == \/ seatStatus[s] = "booked"
                       \/ (seatStatus[s] = "temporary" /\ seatUserId[s] # userId)
              own == seatStatus[s] = "temporary" /\ seatUserId[s] = userId
              free == seatStatus[s] = "available"
          IN /\ inert => holdRequests' = holdRequests
             /\ own => holdRequests' =
                          holdRequests (+) SetToBag({[kind |-> "deselect", seat |-> s]})
             /\ free => holdRequests' =
                          holdRequests (+) SetToBag({[kind |-> "select", seat |-> s]})
             /\ statusRequests' = statusRequests
             /\ rtSelectedSeats' = rtSelectedSeats
             /\ Snapshot' = Snapshot
             /\ seatStatus' = seatStatus
             /\ seatUserId' = seatUserId
             /\ updateInterval' = updateInterval
             /\ timers' = timers]_vars
C21_Witness ==
    /\ ev.op = "handleSeatClick"
    /\ seatStatus[ev.arg.seat] = "temporary"
    /\ seatUserId[ev.arg.seat] = "u2"
    /\ \E t \in Seats : seatStatus[t] = "temporary" /\ seatUserId[t] = userId
    /\ holdRequests = EmptyBag
    /\ statusRequests = <<>>

\* destroy() has run on an initialized manager: the click listeners, which
\* only destroy removes, are gone.
Destroyed == listeners /\ ~seatListeners

\* C22: after destroy() no focus, blur or visibilitychange event makes the
\* manager poll again: updateInterval is null when destroy returns and is
\* still null after every later event of these kinds.
C22_NoPollAfterDestroy ==
    [][/\ ev'.op = "destroy" => updateInterval' = 0
       /\ (Destroyed /\ ev'.op = "lifecycleEvent") => updateInterval' = 0]_vars
C22_DestroyStops ==
    [][ev'.op = "destroy"
       => /\ updateInterval' = 0
          /\ timers' = {}
          /\ ~seatListeners']_vars
C22_DestroyWitness ==
    /\ ev.op = "destroy"
    /\ Destroyed
    /\ statusRequests # <<>>

\* getCachedAvailability answers from an entry younger than this (ms).
CacheTtlMs == 10000
CacheAges == {0, CacheTtlMs - 1, CacheTtlMs}
NoData == "null"

\* getCachedAvailability(scheduleId), called when the entry under the key
\* is age milliseconds old.
getCachedAvailability(key, age) ==
    IF key \in DOMAIN availabilityCache /\ age < CacheTtlMs
    THEN availabilityCache[key]
    ELSE NoData

\* C23: once a booking made through handleFormSubmission has succeeded,
\* getCachedAvailability returns null for the schedule id under which
\* checkSeatAvailability caches, whatever the age of an earlier entry.
C23_BookingEvictsCache ==
    (ev.op = "bookSeatsDone" /\ ev.arg.resp.ok /\ ev.arg.resp.success)
        => \A age \in CacheAges :
              getCachedAvailability(StringKey(ScheduleField), age) = NoData

\* The selectedSeats that call i reads for bookingData.seat_numbers is not
\* the list it passed to checkSpecificSeats: one seat was added or removed
\* in between.
SelectionDiffersFromChecked(i) == submissions[i].toggles = 1

\* C24: a call of handleFormSubmission whose pre-check failed (seatCheck is
\* null) issues no booking request, and a booking request is issued only on
\* a pre-check response with all_available = true, for the seats that were
\* checked.
C24_BookingOnlyAfterPassedCheck ==
    [][ev'.op = "checkSeatsDone"
       => LET i == ev'.arg.slot
          IN /\ ~ev'.arg.resp.ok => i \notin BookingRequests'
             /\ i \in BookingRequests'
                   => /\ ev'.arg.resp.ok
                      /\ ev'.arg.resp.all_available
                      /\ ~SelectionDiffersFromChecked(i)]_vars

\* The part of C24 about a failed pre-check: the call ends with the
\* failure alert and a refresh, and no booking request is added.
C24_FailedCheckNoBooking ==
    [][(ev'.op = "checkSeatsDone" /\ ~ev'.arg.resp.ok)
       => /\ BookingRequests' = BookingRequests
          /\ bookingInProgress' = bookingInProgress
          /\ submissions'[ev'.arg.slot].pc = "idle"
          /\ alert'.kind = "failed"
          /\ refreshPending' = refreshPending + 1]_vars
C24_FailedCheckWitness ==
    /\ ev.op = "checkSeatsDone"
    /\ ~ev.arg.resp.ok
    /\ BookingRequests = {}
    /\ selectedSeats # {}

====
